---- MODULE Spec2Model ----
(***************************************************************************)
(* NTSR: the built-in transpilation pipeline (NTSRRunner.run,              *)
(* TypeScriptTranspiler, DependencyManager, ImportResolver, TempManager,   *)
(* TypeChecker) as a state machine.                                        *)
(*                                                                         *)
(* A directory is a sequence of path segments; a file path is a record     *)
(* [dir, name, ext]; a relative path or import specifier additionally      *)
(* carries the number of leading ".." segments.                            *)
(***************************************************************************)
EXTENDS Naturals, Sequences, FiniteSets, TLC

VARIABLES
  imports,   \* source tree: file -> its import specifiers, in source order
  files,     \* files existing below os.tmpdir(): path -> content
  dirs,      \* directories existing at or below os.tmpdir()
  mgr,       \* runner instance -> its TempManager fields
  run,       \* run() invocation -> its position and locals
  runnerOf,  \* run() invocation -> the NTSRRunner instance it is called on
  nextId,    \* number of session ids ID.generate has handed out
  proc,      \* host process: "alive" | "exited"
  tcRaw,     \* TypeChecker: diagnostics the compiler reported
  tcName,    \* TypeChecker: the file name passed to performTypeCheck
  tcOut,     \* TypeChecker: what performTypeCheck returned
  cfg,       \* TSConfigReader: the tsconfig.json found and what was read
  cli,       \* the command line, what parseArgs made of it, what main did
  tm         \* TempManager driven on its own: what cleanup() did last

vars == <<imports, files, dirs, mgr, run, runnerOf, nextId, proc,
          tcRaw, tcName, tcOut, cfg, cli, tm>>

(***************************************************************************)
(* Bounds of the model.                                                    *)
(***************************************************************************)
MaxEdges == 3      \* import statements in the whole source tree
MaxFaults == 1     \* files that fail to be read, checked or converted in a run
MaxChainEdges == 1 \* imports in a source tree run through the external runners
MaxDiags == 2      \* raw diagnostics in one performTypeCheck call
MaxArgs == 3       \* tokens on the command line
MaxTmOps == 5      \* calls made on a TempManager driven on its own

(***************************************************************************)
(* Paths (node:path on a POSIX host).                                      *)
(***************************************************************************)
NoDir == <<"<none>">>
NoFile == [dir |-> NoDir, name |-> "", ext |-> ""]

File(d, n, e) == [dir |-> d, name |-> n, ext |-> e]

RECURSIVE CommonLen(_, _)
CommonLen(a, b) ==
  IF a = <<>> \/ b = <<>> \/ Head(a) # Head(b) THEN 0
  ELSE 1 + CommonLen(Tail(a), Tail(b))

IsPrefix(a, b) == Len(a) <= Len(b) /\ SubSeq(b, 1, Len(a)) = a

\* dir with its last n segments removed (".." at the root stays at the root)
Up(d, n) == IF n >= Len(d) THEN <<>> ELSE SubSeq(d, 1, Len(d) - n)

\* path.relative(fromDir, file)
relative(fromDir, f) ==
  LET c == CommonLen(fromDir, f.dir)
  IN [up |-> Len(fromDir) - c,
      dir |-> SubSeq(f.dir, c + 1, Len(f.dir)),
      name |-> f.name, ext |-> f.ext]

\* path.resolve(baseDir, rel) / path.join(baseDir, rel)
resolve(baseDir, rel) ==
  File(Up(baseDir, rel.up) \o rel.dir, rel.name, rel.ext)

\* the directory itself and all its ancestors, the root excluded
Ancestors(d) == {SubSeq(d, 1, i) : i \in 1..Len(d)}

\* file name with its extension, as one path segment
FullName(p) == IF p.ext = "" THEN p.name ELSE p.name \o "." \o p.ext

(***************************************************************************)
(* The source tree the runs work on.  Its files are fixed; what they       *)
(* import, and which of them is defective, is an input.                    *)
(***************************************************************************)
SrcDir == <<"p", "src">>
LibDir == <<"p", "src", "lib">>
SharedDir == <<"p", "shared">>
TmpDir == <<"tmp">>                      \* os.tmpdir()

Main == File(SrcDir, "main", "ts")       \* the entry script
FileA == File(SrcDir, "a", "ts")
LibIndex == File(LibDir, "index", "ts")
LibH == File(LibDir, "h", "js")
SharedS == File(SharedDir, "s", "js")
SharedT == File(SharedDir, "t", "ts")
Missing == File(SrcDir, "missing", "ts") \* a script path that does not exist

SrcFiles == {Main, FileA, LibIndex, LibH, SharedS, SharedT}

\* an installed package: node_modules/pkg/sub.d.ts (path.parse gives the
\* name "sub.d" and the extension ".ts")
NodeModulesDir == <<"p", "node_modules">>
NmSub == File(NodeModulesDir \o <<"pkg">>, "sub.d", "ts")
Installed == {NmSub}

\* a file system on which every path exists
existsAnything(f) == TRUE

existsSrc(f) == f \in SrcFiles \cup Installed

(***************************************************************************)
(* Import specifiers.                                                      *)
(***************************************************************************)
Rel(u, d, n, e) == [kind |-> "rel", up |-> u, dir |-> d, name |-> n, ext |-> e]
Alias(d, n) == [kind |-> "alias", up |-> 0, dir |-> d, name |-> n, ext |-> ""]
Bare(d, n) == [kind |-> "bare", up |-> 0, dir |-> d, name |-> n, ext |-> ""]

\* the import statements a source file may contain
MayImport(f) ==
  CASE f = Main ->
         { Rel(0, <<>>, "a", ""),                 \* "./a"
           Rel(0, <<>>, "lib", ""),               \* "./lib" (index file)
           Rel(0, <<"lib">>, "h", "js"),          \* "./lib/h.js"
           Rel(1, <<"shared">>, "s", "js"),       \* "../shared/s.js"
           Rel(1, <<"shared">>, "t", ""),         \* "../shared/t"
           Bare(<<>>, "pkg"),                     \* "pkg"
           Bare(<<"pkg">>, "sub") }               \* "pkg/sub"
    [] f = FileA ->
         { Rel(0, <<>>, "lib", ""),               \* "./lib"
           Rel(0, <<>>, "main", ""),              \* "./main"
           Rel(0, <<"lib">>, "h", "js") }         \* "./lib/h.js"
    [] f = LibIndex ->
         { Rel(0, <<>>, "h", "js"),               \* "./h.js"
           Rel(1, <<>>, "a", ""),                 \* "../a"
           Alias(<<>>, "a") }                     \* "@/a"
    [] f = LibH ->
         { Rel(2, <<"shared">>, "s", "js") }      \* "../../shared/s.js"
    [] f = SharedS ->
         { Rel(1, <<"src", "lib">>, "h", "js") }  \* "../src/lib/h.js"
    [] OTHER -> {}

(***************************************************************************)
(* TranspilerUtils.                                                        *)
(***************************************************************************)
isTypeScriptFile(f) == f.ext \in {"ts", "tsx", "d.ts"}

isRelativeImport(s) == s.kind = "rel"

\* "@/x", or any specifier that starts with an alphanumeric segment and a
\* slash and does not mention node_modules
isPathMappedImport(s) ==
  \/ s.kind = "alias"
  \/ /\ s.kind = "bare"
     /\ s.dir # <<>>
     /\ \A i \in 1..Len(s.dir) : s.dir[i] # "node_modules"

\* the directory an import path is looked up from
SpecDir(s, sourceDir) == Up(sourceDir, s.up) \o s.dir

isTypeScriptImport(s, sourceDir) ==
  \/ \E e \in {"ts", "tsx"} :
       existsSrc(File(SpecDir(s, sourceDir), FullName(s), e))
  \/ \E e \in {"ts", "tsx"} :
       existsSrc(File(SpecDir(s, sourceDir) \o <<FullName(s)>>, "index", e))

(***************************************************************************)
(* ts.resolveModuleName as the pipeline calls it: the compiler's node      *)
(* resolution, TypeScript extensions before JavaScript ones, the file      *)
(* before the directory's index; "@/" is mapped onto the source root.      *)
(***************************************************************************)
AliasRoot == SrcDir

RECURSIVE FirstExisting(_)
FirstExisting(cands) ==
  IF cands = <<>> THEN NoFile
  ELSE IF existsSrc(Head(cands)) THEN Head(cands)
  ELSE FirstExisting(Tail(cands))

Candidates(d, s) ==
  IF s.ext = ""
  THEN << File(d, s.name, "ts"), File(d, s.name, "tsx"),
          File(d, s.name, "js"), File(d, s.name, "jsx"),
          File(d \o <<s.name>>, "index", "ts"),
          File(d \o <<s.name>>, "index", "tsx"),
          File(d \o <<s.name>>, "index", "js") >>
  ELSE IF s.ext = "js"
  THEN << File(d, s.name, "ts"), File(d, s.name, "tsx"),
          File(d, s.name, "js") >>
  ELSE << File(d, s.name, s.ext) >>

resolveModuleName(s, containingFile) ==
  CASE s.kind = "rel" ->
         FirstExisting(Candidates(SpecDir(s, containingFile.dir), s))
    [] s.kind = "alias" ->
         FirstExisting(Candidates(AliasRoot \o s.dir, s))
    [] s.kind = "bare" /\ s.dir # <<>> ->
         LET d == NodeModulesDir \o s.dir
         IN FirstExisting(<< File(d, s.name, "ts"), File(d, s.name, "tsx"),
                             File(d, s.name \o ".d", "ts"),
                             File(d, s.name, "js") >>)
    [] OTHER -> NoFile

(***************************************************************************)
(* ImportResolver.                                                         *)
(***************************************************************************)
targetExt(format) ==
  IF format = "cjs" THEN "cjs" ELSE IF format = "esm" THEN "mjs" ELSE "js"

resolvePathMappedImport(s, containingFile) ==
  resolveModuleName(s, containingFile)

\* importPath + targetExt
AppendExt(s, e) == [s EXCEPT !.name = FullName(s), !.ext = e]

\* what one import / require specifier of `filename` is replaced by
RewriteSpecifier(s, filename, format) ==
  IF isRelativeImport(s)
  THEN IF isTypeScriptImport(s, filename.dir)
       THEN AppendExt(s, targetExt(format))
       ELSE s
  ELSE IF isPathMappedImport(s)
  THEN LET resolvedPath == resolvePathMappedImport(s, filename)
       IN IF resolvedPath # NoFile /\ isTypeScriptFile(resolvedPath)
          THEN LET rp == relative(filename.dir, resolvedPath)
               IN Rel(rp.up, rp.dir, rp.name, targetExt(format))
          ELSE s
  ELSE s

preprocessImportsForTranspilation(code, filename, format) ==
  [i \in 1..Len(code) |-> RewriteSpecifier(code[i], filename, format)]

(***************************************************************************)
(* TempManager: where a source file lands in the session.                  *)
(***************************************************************************)
calculateTargetPath(filePath, sourceDir, tempDir) ==
  resolve(tempDir, relative(sourceDir, filePath))

calculateTranspiledOutputPath(filePath, baseSourceDir, tempDir, format) ==
  LET rp == relative(baseSourceDir, filePath)
      \* a path that starts with ".." keeps only the file name
      inside == IF rp.up > 0 THEN <<>> ELSE rp.dir
  IN File(tempDir \o inside, filePath.name, targetExt(format))

\* mkdirSync(d, { recursive: true })
mkdirSync(ds, d) == ds \cup Ancestors(d)

Range(q) == {q[i] : i \in 1..Len(q)}

\* writeFileSync / copyFileSync
writeFileSync(fs, path, content) ==
  [p \in DOMAIN fs \cup {path} |-> IF p = path THEN content ELSE fs[p]]

\* Map.set
MapSet(m, k, v) == [x \in DOMAIN m \cup {k} |-> IF x = k THEN v ELSE m[x]]

EmptyMap == [x \in {} |-> NoFile]

NewManager ==
  [tempFiles |-> <<>>, tempDirs |-> <<>>, fileMapping |-> EmptyMap,
   currentTempDir |-> NoDir]

\* ID.generate({ prefix: "nehonix_tsr.dir" }): a name not handed out before
SessionDir(id) == TmpDir \o <<"nehonix_tsr.dir" \o ToString(id)>>

createTempSession(m, id) ==
  [m EXCEPT !.currentTempDir = SessionDir(id),
            !.tempDirs = Append(@, SessionDir(id)),
            !.fileMapping = EmptyMap]

\* a manager that forgets the files it is told about
addTempFileUntracked(m, filePath) == m

addTempFile(m, filePath) == [m EXCEPT !.tempFiles = Append(@, filePath)]

addFileMapping(m, originalPath, tempPath) ==
  [m EXCEPT !.fileMapping = MapSet(@, originalPath, tempPath)]

getMappedPath(m, originalPath) ==
  IF originalPath \in DOMAIN m.fileMapping
  THEN m.fileMapping[originalPath] ELSE NoFile

\* a cleanup that removes the tracked directories without what is below them
cleanupDirectoriesFlat(ds, tempDirs) == ds \ Range(tempDirs)

\* cleanupDirectory over every tracked directory that exists: the directory
\* and everything below it goes
cleanupDirectories(ds, tempDirs) ==
  {d \in ds : ~ \E t \in Range(tempDirs) : t \in ds /\ IsPrefix(t, d)}

\* what cleanup() leaves of the files: the tracked files are unlinked, and
\* so is every file below a tracked directory
cleanupFiles(fs, ds, m) ==
  LET keep == {p \in DOMAIN fs :
                 /\ p \notin Range(m.tempFiles)
                 /\ ~ \E t \in Range(m.tempDirs) :
                        t \in ds /\ IsPrefix(t, p.dir)}
  IN [p \in keep |-> fs[p]]

(***************************************************************************)
(* TempManager.cleanup step by step.  `st` is the file system with what    *)
(* the call has done so far: log is the sequence of unlinkSync / rmdirSync *)
(* calls that succeeded; an unlink or rmdir of a path in `locked` throws.  *)
(***************************************************************************)
RECURSIVE SeqOf(_)
SeqOf(S) ==
  IF S = {} THEN <<>>
  ELSE LET x == CHOOSE y \in S : TRUE IN <<x>> \o SeqOf(S \ {x})

Unlinked(p) == [isDir |-> FALSE, dir |-> p.dir, file |-> p]
Removed(d) == [isDir |-> TRUE, dir |-> d, file |-> NoFile]

\* readdirSync(d): the files, then the directories, directly in d
readdirSync(st, d) ==
  SeqOf({Unlinked(p) : p \in {x \in st.fs : x.dir = d}})
    \o SeqOf({Removed(x) : x \in {y \in st.ds :
                                     Len(y) = Len(d) + 1 /\ IsPrefix(d, y)}})

\* a catch block that lets the exception escape
Rethrown(st) == [st EXCEPT !.abort = FALSE, !.threw = TRUE]

\* catch (error) { this.logger.warn(...) }
Caught(st) == [st EXCEPT !.abort = FALSE, !.warned = TRUE]

\* a cleanupDirectory that removes the directory before its entries
cleanupDirectoryOutermostFirst(st, d) ==
  LET inside == {x \in st.ds : IsPrefix(d, x)}
  IN [st EXCEPT
        !.log = @ \o <<Removed(d)>>
                  \o SeqOf({Unlinked(p) : p \in {x \in st.fs :
                                                   IsPrefix(d, x.dir)}}),
        !.fs = {x \in @ : ~ IsPrefix(d, x.dir)},
        !.ds = @ \ inside]

\* TempManager.cleanupDirectory, and its loop over the entries q
RECURSIVE cleanupDirectory(_, _), cleanupEntries(_, _)
cleanupDirectory(st, d) ==
  LET s1 == cleanupEntries(st, readdirSync(st, d))
      empty == /\ ~ \E x \in s1.fs : x.dir = d
               /\ ~ \E y \in s1.ds : Len(y) = Len(d) + 1 /\ IsPrefix(d, y)
  IN IF s1.abort THEN Caught(s1)                 \* unlinkSync threw
     ELSE IF ~ empty
     THEN Caught([s1 EXCEPT !.abort = TRUE])     \* rmdirSync threw
     ELSE [s1 EXCEPT !.ds = @ \ {d}, !.log = Append(@, Removed(d))]

cleanupEntries(st, q) ==
  IF q = <<>> THEN st
  ELSE LET e == Head(q)
       IN IF e.isDir
          THEN cleanupEntries(cleanupDirectory(st, e.dir), Tail(q))
          ELSE IF e.file \in st.locked
          THEN [st EXCEPT !.abort = TRUE]
          ELSE cleanupEntries([st EXCEPT !.fs = @ \ {e.file},
                                         !.log = Append(@, e)], Tail(q))

\* cleanup(): for (const tempFile of this.tempFiles)
RECURSIVE unlinkTracked(_, _)
unlinkTracked(st, q) ==
  IF q = <<>> THEN st
  ELSE LET tempFile == Head(q)
           s1 == IF tempFile \notin st.fs
                 THEN [st EXCEPT !.skipped = TRUE]
                 ELSE IF tempFile \in st.locked
                 THEN Caught([st EXCEPT !.abort = TRUE])
                 ELSE [st EXCEPT !.fs = @ \ {tempFile},
                                 !.log = Append(@, Unlinked(tempFile))]
       IN unlinkTracked(s1, Tail(q))

\* cleanup(): for (const tempDir of this.tempDirs)
RECURSIVE removeTracked(_, _)
removeTracked(st, q) ==
  IF q = <<>> THEN st
  ELSE LET tempDir == Head(q)
           s1 == IF tempDir \notin st.ds
                 THEN [st EXCEPT !.skipped = TRUE]
                 ELSE cleanupDirectory(st, tempDir)
       IN removeTracked(s1, Tail(q))

\* what one cleanup() call does to the files fs and the directories ds
cleanupSteps(fs, ds, m, locked) ==
  removeTracked(
    unlinkTracked([fs |-> fs, ds |-> ds, locked |-> locked, log |-> <<>>,
                   abort |-> FALSE, threw |-> FALSE, warned |-> FALSE,
                   skipped |-> FALSE],
                  m.tempFiles),
    m.tempDirs)

MaxSessions == 2

\* where a pipeline holding the session directory tempDir writes
TmPaths(tempDir) ==
  { File(tempDir, "main", "mjs"),
    File(tempDir \o <<"lib">>, "index", "mjs"),
    File(TmpDir \o <<"shared">>, "s", "js") }

NoTm ==
  [locked |-> {}, ops |-> 0, last |-> "none", log |-> <<>>,
   threw |-> FALSE, warned |-> FALSE, skipped |-> FALSE,
   primary |-> "none", result |-> "none",
   again |-> FALSE,     \* the last two calls were both cleanup()
   changed |-> FALSE,   \* the last cleanup() changed the file system
   lateAdds |-> 0]      \* addTempFile calls accepted with no session open

(***************************************************************************)
(* TSConfigReader.  Compiler options are a partial function from option    *)
(* names to values; an option the user did not give is not in the domain.  *)
(***************************************************************************)
OptionKeys ==
  {"noEmit", "skipLibCheck", "allowSyntheticDefaultImports",
   "esModuleInterop", "strict", "sourceMap"}

\* { ...a, ...b }
Spread(a, b) ==
  [k \in DOMAIN a \cup DOMAIN b |-> IF k \in DOMAIN b THEN b[k] ELSE a[k]]

getDefaultCompilerOptions ==
  [k \in OptionKeys |-> k # "sourceMap"]

requiredOptions ==
  [k \in {"noEmit", "skipLibCheck", "allowSyntheticDefaultImports",
          "esModuleInterop"} |-> TRUE]

\* a merge in which the user's values win
mergeWithUserPrecedence(userOptions) == Spread(requiredOptions, userOptions)

mergeWithRequiredOptions(userOptions) == Spread(userOptions, requiredOptions)

\* what can be found at the search path: no tsconfig.json, one that
\* ts.readConfigFile reports an error for, one whose parsing throws, one that
\* parses with errors, one that parses cleanly
ConfigStates == {"none", "unreadable", "throws", "errors", "ok"}

DefaultResult(warned) ==
  [compilerOptions |-> getDefaultCompilerOptions, isDefault |-> TRUE,
   warned |-> warned]

\* `parsed` is parsedConfig.options
readConfigFile(state, parsed) ==
  IF state \in {"unreadable", "throws"} THEN DefaultResult(TRUE)
  ELSE [compilerOptions |-> mergeWithRequiredOptions(parsed),
        isDefault |-> FALSE, warned |-> state = "errors"]

findAndReadConfig(state, parsed) ==
  IF state = "none" THEN DefaultResult(FALSE)
  ELSE readConfigFile(state, parsed)

\* the compilerOptions performTypeCheck hands to ts.createProgram; an
\* option the configuration leaves out is taken as true (x ?? true)
CheckerOptions(tsConfig) ==
  LET o == tsConfig.compilerOptions
  IN Spread(o,
       [k \in DOMAIN requiredOptions |->
          IF k \in {"noEmit", "skipLibCheck"} THEN TRUE
          ELSE IF k \in DOMAIN o THEN o[k] ELSE TRUE])

\* the option sets a tsconfig.json can give
UserOptions == UNION {[S -> BOOLEAN] : S \in SUBSET OptionKeys}

NoConfig ==
  [state |-> "none", parsed |-> [k \in {} |-> TRUE], ran |-> FALSE,
   result |-> DefaultResult(FALSE), used |-> getDefaultCompilerOptions]

(***************************************************************************)
(* TypeChecker.                                                            *)
(***************************************************************************)
ignoredCodes ==
  {2304, 2318, 2307, 6133, 6196, 7016, 7017, 2580, 2792, 5023, 5024, 6053,
   6059}

criticalErrorCodes ==
  {1002, 1003, 1005, 1009, 1128, 2322, 2339, 2345, 2355, 2365, 2532, 2540,
   2551, 2552, 2554, 2571}

Diag(c, f, n) == [category |-> c, file |-> f, code |-> n]

\* files a diagnostic can be attached to, besides the source files
NmFile == File(<<"p", "node_modules", "pkg">>, "index", "ts")
LibDts == File(<<"opt", "typescript">>, "lib.es2022", "d.ts")
TypesDts == File(SrcDir, "types", "d.ts")

\* fileName.includes("node_modules") || fileName.includes("lib.") ||
\* fileName.endsWith(".d.ts")
isLibraryFile(f) ==
  \/ \E i \in 1..Len(f.dir) : f.dir[i] = "node_modules"
  \/ f.name \in {"lib", "lib.es2022"}
  \/ f.ext = "d.ts"

\* a filter that keeps diagnostics of other user files
KeepDiagnosticAnyFile(d, userFileName) ==
  /\ d.category \in {"Error", "Warning"}
  /\ d.file # NoFile => ~ isLibraryFile(d.file)
  /\ d.code \notin ignoredCodes
  /\ d.category = "Error" => d.code \in criticalErrorCodes

KeepDiagnostic(d, userFileName) ==
  /\ d.category \in {"Error", "Warning"}
  /\ d.file # NoFile => ~ isLibraryFile(d.file) /\ d.file = userFileName
  /\ d.code \notin ignoredCodes
  /\ d.category = "Error" => d.code \in criticalErrorCodes

filterRelevantDiagnostics(diagnostics, userFileName) ==
  SelectSeq(diagnostics, LAMBDA d : KeepDiagnostic(d, userFileName))

\* a checker that reports its own failure as an error of the file
performTypeCheckFailClosed(raw, filename, threw) ==
  IF threw THEN << Diag("Error", filename, 2322) >>
  ELSE filterRelevantDiagnostics(raw, filename)

\* `threw` is the compiler throwing inside the try block
performTypeCheck(raw, filename, threw) ==
  IF threw THEN <<>> ELSE filterRelevantDiagnostics(raw, filename)

\* the diagnostics the compiler can report in the model
DiagCategories == {"Error", "Warning", "Suggestion"}
DiagFiles == {NoFile, Main, FileA, NmFile, LibDts, TypesDts}
DiagCodes == {2322, 2304, 7006}
AllDiags ==
  {Diag(c, f, n) : c \in DiagCategories, f \in DiagFiles, n \in DiagCodes}

(***************************************************************************)
(* NTSRRunner.run and the walk below it.  An action is the stretch of      *)
(* code between two awaits.                                                *)
(***************************************************************************)
Runs == {1, 2}
Runners == {1, 2}
externalRunners == <<"tsx", "ts-node", "bun">>
Scripts == {Main, Missing, LibH, LibIndex}
Formats == {"esm", "cjs", "iife"}

\* what the compiler reports for the entry script
GateSamples ==
  { <<>>,
    << Diag("Error", Main, 2322) >>,
    << Diag("Warning", Main, 7006) >>,
    << Diag("Error", LibDts, 2322) >> }

\* number of import statements in the files S
RECURSIVE SumLen(_)
SumLen(S) ==
  IF S = {} THEN 0
  ELSE LET f == CHOOSE x \in S : TRUE IN Len(imports[f]) + SumLen(S \ {f})

\* both run() calls are made; overlapping runs are explored on the default
\* format and on the diagnostics that matter to the gate
Overlapping == \A r \in Runs : runnerOf[r] # 0

\* every format on the short import chains, the module formats beyond
StartFormats ==
  IF Overlapping THEN {"esm"}
  ELSE IF SumLen(DOMAIN imports) > MaxChainEdges THEN {"esm", "cjs"}
  ELSE Formats

\* the script imports something: the walk over the import graph is explored
\* on a script that type-checks cleanly with the gate enabled
GraphGiven == \E f \in DOMAIN imports : imports[f] # <<>>

\* overlapping runs are given the scripts of the entry directory
StartScripts == IF Overlapping THEN Scripts \ {LibIndex} ELSE Scripts

StartSamples ==
  IF Overlapping THEN { <<>>, << Diag("Error", Main, 2322) >> }
  ELSE IF GraphGiven THEN { <<>> }
  ELSE GateSamples

\* whether the compiler throws inside performTypeCheck
StartThrows == IF Overlapping \/ GraphGiven THEN {FALSE} ELSE BOOLEAN

\* options.skipTypeCheck
StartSkips == IF GraphGiven /\ ~ Overlapping THEN {FALSE} ELSE BOOLEAN

IdleRun ==
  [pc |-> "idle", script |-> NoFile,
   skipTypeCheck |-> FALSE, forceBuiltin |-> FALSE, format |-> "esm",
   tcThrew |-> FALSE,     \* the compiler threw inside performTypeCheck
   entryDiags |-> <<>>,   \* performTypeCheck of the entry script
   checked |-> FALSE,     \* the type-check gate of run() was passed through
   gate |-> <<>>,         \* the diagnostics the gate saw
   runnerIdx |-> 0,       \* position in externalRunners
   started |-> <<>>,      \* child processes spawned to execute the script
   exits |-> <<>>,        \* history: how each of them closed
   session |-> NoDir,     \* tempDir of transpileToTempFile
   processed |-> {},      \* processedFiles
   stack |-> <<>>,        \* transpileDependencies calls in progress
   pending |-> NoFile,    \* file whose transform is awaited
   entryOut |-> NoFile,   \* outputPath of the entry script
   tempJsPath |-> NoFile, \* what transpileToTempFile returned
   returned |-> {},       \* history: output paths returned, and whether
                          \* tempFiles held them at that moment
   outcome |-> "none",
   exitCode |-> 0,        \* what main exits with once run() has settled
   failed |-> {},         \* history: files that failed, and how
   made |-> {},           \* history: files this run wrote
   placed |-> {},         \* history: source file, its importer, the path
                          \* and the bytes written
   madeDirs |-> {},       \* history: directories this run created
   written |-> <<>>]      \* history: source files converted or copied

\* the import statements of f; a declaration file of a package has none
ImportsOf(f) == IF f \in DOMAIN imports THEN imports[f] ELSE <<>>

InFlight(r) == run[r].pc \notin {"idle", "done"}

hasErrors(diagnostics) ==
  \E i \in 1..Len(diagnostics) : diagnostics[i].category = "Error"

\* the state one step of a run works on
World(r) ==
  [rr |-> run[r], m |-> mgr[runnerOf[r]], fs |-> files, ds |-> dirs,
   id |-> nextId]

Commit(r, w) ==
  /\ run' = [run EXCEPT ![r] = w.rr]
  /\ mgr' = [mgr EXCEPT ![runnerOf[r]] = w.m]
  /\ files' = w.fs
  /\ dirs' = w.ds
  /\ nextId' = w.id
  /\ UNCHANGED <<imports, runnerOf, proc, tcRaw, tcName, tcOut, cfg, cli, tm>>

\* TempManager.cleanup
cleanup(w) ==
  [w EXCEPT !.fs = cleanupFiles(w.fs, w.ds, w.m),
            !.ds = cleanupDirectories(w.ds, w.m.tempDirs),
            !.m = NewManager]

\* run() returns or rejects: catch, then finally { this.cleanup() }; in
\* main a rejection of runner.run ends in process.exit(1)
Settle(w, outcome) ==
  cleanup([w EXCEPT !.rr.pc = "done", !.rr.outcome = outcome,
                    !.rr.exitCode = (IF outcome = "ok" THEN 0 ELSE 1),
                    !.rr.pending = NoFile, !.rr.stack = <<>>])

\* What can happen to a file when the pipeline gets to it: "read" is
\* readFileSync / copyFileSync throwing, "type" is transpileCode finding type
\* errors, "convert" is esbuild's transform rejecting.
MayFail(rr, kinds) ==
  LET soFar == UNION {run[r].failed : r \in Runs}
  IN {"ok"} \cup (IF Cardinality(soFar) < MaxFaults THEN kinds ELSE {})

Failed(rr, f, how) ==
  IF how = "ok" THEN rr.failed
  ELSE rr.failed \cup {[file |-> f, kind |-> how]}

\* run(): the built-in path up to the first await of the walk
\* `how` is what happens to the entry script in transpileFileWithDependencies
\* before its first await
EnterBuiltin(w, how) ==
  LET tempDir == SessionDir(w.id)
      w1 == [w EXCEPT !.m = createTempSession(w.m, w.id),
                      !.ds = mkdirSync(w.ds, tempDir),
                      !.id = w.id + 1,
                      !.rr.session = tempDir,
                      !.rr.madeDirs = @ \cup (Ancestors(tempDir) \ w.ds),
                      !.rr.processed = {w.rr.script},
                      !.rr.failed = Failed(w.rr, w.rr.script, how)]
  IN IF how = "read" THEN Settle(w1, "transpile-failed")
     ELSE IF hasErrors(w.rr.entryDiags) THEN Settle(w1, "compilation-failed")
     ELSE [w1 EXCEPT !.rr.pending = w.rr.script, !.rr.pc = "transform"]

\* a fallback that gives up on the external runners after the first one
NextRunnerStraightToBuiltin(w, how) == EnterBuiltin(w, how)

\* run(): the runner at runnerIdx was unavailable or failed
NextRunner(w, how) ==
  IF w.rr.runnerIdx < Len(externalRunners)
  THEN [w EXCEPT !.rr.runnerIdx = @ + 1, !.rr.pc = "probe"]
  ELSE EnterBuiltin(w, how)

\* a gate that lets a single diagnostic through
GateRejectsFromTwo(diagnostics) == Len(diagnostics) > 1

\* the gate of run() throws "TypeScript compilation errors found"
GateRejects(diagnostics) == Len(diagnostics) > 0

Start(r) ==
  /\ proc = "alive"
  /\ runnerOf[r] # 0
  /\ run[r].pc = "idle"
  /\ \E script \in StartScripts, skip \in StartSkips, force \in BOOLEAN,
        fmt \in StartFormats, raw \in StartSamples,
        how \in MayFail(run[r], {"read"}), threw \in StartThrows :
       /\ force \/ SumLen(SrcFiles) <= MaxChainEdges
       /\ LET gate == IF skip \/ ~ existsSrc(script)
                      THEN <<>> ELSE performTypeCheck(raw, script, threw)
              w == [World(r) EXCEPT
                      !.rr.script = script,
                      !.rr.skipTypeCheck = skip,
                      !.rr.forceBuiltin = force,
                      !.rr.format = fmt,
                      !.rr.tcThrew = threw,
                      !.rr.entryDiags = performTypeCheck(raw, script, threw)]
              wc == [w EXCEPT !.rr.checked = ~ skip, !.rr.gate = gate]
          IN Commit(r,
               IF ~ existsSrc(script) THEN Settle(w, "not-found")
               ELSE IF script.ext \in {"js", "mjs", "cjs"}
               THEN [w EXCEPT !.rr.started = Append(@, "node"),
                              !.rr.pc = "exec"]
               ELSE IF ~ skip /\ GateRejects(gate)
               THEN Settle(wc, "type-errors")
               ELSE IF ~ force
               THEN [wc EXCEPT !.rr.runnerIdx = 1, !.rr.pc = "probe"]
               ELSE EnterBuiltin(wc, how))

\* await checkExternalRunner(runner) resolves
Probe(r) ==
  /\ proc = "alive"
  /\ run[r].pc = "probe"
  /\ \E available \in BOOLEAN, how \in MayFail(run[r], {"read"}) :
       LET w == World(r)
       IN Commit(r,
            IF available
            THEN [w EXCEPT
                    !.rr.started = Append(@, externalRunners[w.rr.runnerIdx]),
                    !.rr.pc = "external"]
            ELSE NextRunner(w, how))

\* await runWithExternalRunner(...) settles
ExternalExit(r) ==
  /\ proc = "alive"
  /\ run[r].pc = "external"
  /\ \E succeeded \in BOOLEAN, how \in MayFail(run[r], {"read"}) :
       LET w == World(r)
           wo == [w EXCEPT !.rr.exits = Append(@, "ok")]
           wf == [w EXCEPT !.rr.exits = Append(@, "failed")]
       IN Commit(r, IF succeeded THEN Settle(wo, "ok")
                    ELSE NextRunner(wf, how))

\* DependencyManager.extractDependenciesFromSourceFile with
\* resolveAndAddDependency: the local imports that resolve, in source order
extractDependenciesFromSourceFile(f) ==
  LET local == SelectSeq(ImportsOf(f), LAMBDA s :
                 /\ isRelativeImport(s) \/ isPathMappedImport(s)
                 /\ resolveModuleName(s, f) # NoFile)
  IN [i \in 1..Len(local) |->
        [resolvedPath |-> resolveModuleName(local[i], f),
         needsTranspilation |->
           isTypeScriptFile(resolveModuleName(local[i], f))]]

Pop(q) == SubSeq(q, 1, Len(q) - 1)
Top(q) == q[Len(q)]

\* the code written for source file f
Transpiled(f, tempDir, format) ==
  [from |-> f, session |-> tempDir,
   imports |-> preprocessImportsForTranspilation(ImportsOf(f), f, format)]

\* the bytes of source file f
Source(f) == [from |-> f, session |-> NoDir, imports |-> ImportsOf(f)]

\* the path handed back, with what the tracked file list says about it
Returned(w, outputPath) ==
  [path |-> outputPath, tracked |-> outputPath \in Range(w.m.tempFiles)]

\* transpileDependencies of the file on top of the stack is over, by the end
\* of its loop or by its catch: transpileFileWithDependencies of that file
\* returns outputPath
ReturnTop(w) ==
  LET rr == w.rr
      outputPath == calculateTranspiledOutputPath(Top(rr.stack).file,
                      rr.script.dir, rr.session, rr.format)
  IN [w EXCEPT !.rr.stack = Pop(@),
               !.rr.returned = @ \cup {Returned(w, outputPath)}]

\* transpileFileWithDependencies(f) after `await transpileCode`: write the
\* output, record it, and enter transpileDependencies(f)
WriteTranspiled(w, f) ==
  LET rr == w.rr
      outputPath == calculateTranspiledOutputPath(f, rr.script.dir,
                                                  rr.session, rr.format)
  IN [w EXCEPT
        !.ds = mkdirSync(w.ds, outputPath.dir),
        !.fs = writeFileSync(w.fs, outputPath,
                             Transpiled(f, rr.session, rr.format)),
        !.m = addFileMapping(addTempFile(w.m, outputPath), f, outputPath),
        !.rr.made = @ \cup {outputPath},
        !.rr.placed = @ \cup {[src |-> f, to |-> outputPath,
                                by |-> IF rr.stack = <<>> THEN NoFile
                                       ELSE Top(rr.stack).file,
                                content |-> Transpiled(f, rr.session,
                                                       rr.format)]},
        !.rr.madeDirs = @ \cup (Ancestors(outputPath.dir) \ w.ds),
        !.rr.written = Append(@, f),
        !.rr.entryOut = IF f = rr.script THEN outputPath ELSE @,
        !.rr.stack = Append(@, [file |-> f, i |-> 1,
                                deps |-> extractDependenciesFromSourceFile(f)]),
        !.rr.pending = NoFile,
        !.rr.pc = "deps"]

\* await transform(...) of the pending file settles
Transformed(r) ==
  /\ proc = "alive"
  /\ run[r].pc = "transform"
  /\ \E how \in MayFail(run[r], {"convert"}) :
       LET w0 == World(r)
           f == w0.rr.pending
           w == [w0 EXCEPT !.rr.failed = Failed(w0.rr, f, how)]
       IN Commit(r,
            IF how = "convert"
            THEN IF w.rr.stack = <<>>
                 THEN Settle(w, "transpile-failed")
                 \* caught by the transpileDependencies call of the importer
                 ELSE ReturnTop([w EXCEPT !.rr.pending = NoFile,
                                          !.rr.pc = "deps"])
            ELSE WriteTranspiled(w, f))

\* DependencyManager.copyDependencyFile for a file not yet processed
copyDependencyFile(w, filePath, sourceFile, how) ==
  LET targetPath == calculateTargetPath(filePath, sourceFile.dir,
                                        w.rr.session)
      w1 == [w EXCEPT
               !.rr.processed = @ \cup {filePath},
               !.rr.failed = Failed(w.rr, filePath, how),
               !.ds = mkdirSync(w.ds, targetPath.dir),
               !.rr.madeDirs = @ \cup (Ancestors(targetPath.dir) \ w.ds)]
  IN IF how = "read"
     THEN ReturnTop(w1)                         \* copyFileSync throws
     ELSE [w1 EXCEPT
             !.fs = writeFileSync(w.fs, targetPath, Source(filePath)),
             !.m = addFileMapping(addTempFile(w.m, targetPath),
                                  filePath, targetPath),
             !.rr.made = @ \cup {targetPath},
             !.rr.placed = @ \cup {[src |-> filePath, to |-> targetPath,
                                     by |-> sourceFile,
                                     content |-> Source(filePath)]},
             !.rr.written = Append(@, filePath)]

\* transpileDependencies: one turn of `for (const dep of dependencies)`,
\* the return of the call when the loop is over, and the return of
\* transpileToTempFile when the last call has returned
DepStep(r) ==
  /\ proc = "alive"
  /\ run[r].pc = "deps"
  /\ \E how \in MayFail(run[r], {"read", "type"}) :
     LET w == World(r)
         rr == w.rr
     IN Commit(r,
          IF rr.stack = <<>>
          THEN \* run(): await this.runJavaScript(tempJsPath, ...)
               [w EXCEPT !.rr.tempJsPath = rr.entryOut,
                         !.rr.returned = @ \cup {Returned(w, rr.entryOut)},
                         !.rr.started = Append(@, "node"),
                         !.rr.pc = "exec"]
          ELSE
            LET top == Top(rr.stack)
                n == Len(rr.stack)
            IN IF top.i > Len(top.deps)
               THEN ReturnTop(w)
               ELSE
                 LET dep == top.deps[top.i]
                     f == dep.resolvedPath
                     wn == [w EXCEPT !.rr.stack[n].i = @ + 1]
                 IN IF f \in rr.processed THEN wn
                    ELSE IF dep.needsTranspilation
                    THEN IF how # "ok"
                         THEN ReturnTop(
                                [w EXCEPT !.rr.processed = @ \cup {f},
                                          !.rr.failed = Failed(rr, f, how)])
                         ELSE [wn EXCEPT !.rr.processed = @ \cup {f},
                                         !.rr.pending = f,
                                         !.rr.pc = "transform"]
                    ELSE copyDependencyFile(wn, f, top.file,
                           IF how = "type" THEN "ok" ELSE how))

\* the node child process running the script closes
ScriptExit(r) ==
  /\ proc = "alive"
  /\ run[r].pc = "exec"
  /\ \E code \in {0, 1} :
       LET w == [World(r) EXCEPT
                   !.rr.exits = Append(@, IF code = 0 THEN "ok" ELSE "failed")]
       IN Commit(r, Settle(w, IF code = 0 THEN "ok" ELSE "script-failed"))

\* index.ts setupSignalHandlers: SIGINT / SIGTERM
Signal ==
  /\ proc = "alive"
  /\ \E r \in Runs : InFlight(r)
  /\ proc' = "exited"
  /\ UNCHANGED <<imports, files, dirs, mgr, run, runnerOf, nextId,
                 tcRaw, tcName, tcOut, cfg, cli, tm>>

(***************************************************************************)
(* The source tree is written before the runs start.                       *)
(***************************************************************************)
NoRunYet == \A r \in Runs : run[r].pc = "idle"

AddImport(f, s) ==
  /\ proc = "alive"
  /\ NoRunYet
  /\ \E r \in Runs : runnerOf[r] # 0
  /\ SumLen(SrcFiles) < MaxEdges
  /\ s \in MayImport(f)
  /\ s \notin Range(imports[f])
  /\ imports' = [imports EXCEPT ![f] = Append(@, s)]
  /\ UNCHANGED <<files, dirs, mgr, run, runnerOf, nextId, proc,
                 tcRaw, tcName, tcOut, cfg, cli, tm>>

(***************************************************************************)
(* TypeChecker.performTypeCheck on its own.                                *)
(***************************************************************************)
TcReport(d) ==
  /\ ~ tcOut.ran
  /\ \A r \in Runs : runnerOf[r] = 0
  /\ Len(tcRaw) < MaxDiags
  /\ tcRaw' = Append(tcRaw, d)
  /\ UNCHANGED <<imports, files, dirs, mgr, run, runnerOf, nextId,
                 proc, tcName, tcOut, cfg, cli, tm>>

TcCheck ==
  /\ ~ tcOut.ran
  /\ \A r \in Runs : runnerOf[r] = 0
  /\ \E threw \in BOOLEAN :
       tcOut' = [ran |-> TRUE, list |-> performTypeCheck(tcRaw, tcName, threw)]
  /\ UNCHANGED <<imports, files, dirs, mgr, run, runnerOf, nextId,
                 proc, tcRaw, tcName, cfg, cli, tm>>

(***************************************************************************)
(* CLIParser.parseArgs, CLIParser.validateArgs and main.  A command-line   *)
(* token is the sequence of the words its text is made of when split at    *)
(* white space: <<"main.ts">>, <<"hello", "world">> for "hello world".     *)
(***************************************************************************)
NoTok == <<>>

\* the words that start with "-"
DashWords ==
  {"--help", "-h", "--version", "-v", "--verbose", "--quiet", "--no-color",
   "--minify", "--sourcemap", "--force-builtin", "--show-warnings",
   "--target", "--format", "--format=cjs", "--target=es2020", "--port"}

startsWithDash(arg) == arg[1] \in DashWords

\* the option a flag switches on, "" when arg is not a flag
flagOf(arg) ==
  CASE arg \in {<<"--help">>, <<"-h">>} -> "help"
    [] arg \in {<<"--version">>, <<"-v">>} -> "version"
    [] arg = <<"--verbose">> -> "verbose"
    [] arg = <<"--quiet">> -> "quiet"
    [] arg = <<"--no-color">> -> "noColor"
    [] arg = <<"--minify">> -> "minify"
    [] arg = <<"--sourcemap">> -> "sourcemap"
    [] arg = <<"--force-builtin">> -> "forceBuiltin"
    [] arg = <<"--show-warnings">> -> "showWarnings"
    [] OTHER -> ""

\* options[k] = v
SetOption(options, k, v) ==
  [x \in DOMAIN options \cup {k} |-> IF x = k THEN v ELSE options[x]]

\* the loop of parseArgs from index i on
RECURSIVE parseFrom(_, _, _)
parseFrom(args, i, acc) ==
  IF i > Len(args) THEN acc
  ELSE
    LET arg == args[i]
    IN IF acc.foundScript
       THEN parseFrom(args, i + 1,
                      [acc EXCEPT !.scriptArgs = Append(@, arg)])
       ELSE IF flagOf(arg) # ""
       THEN parseFrom(args, i + 1,
              [acc EXCEPT !.options = SetOption(@, flagOf(arg), TRUE)])
       ELSE IF arg = <<"--target=es2020">>
       THEN parseFrom(args, i + 1,
              [acc EXCEPT !.options = SetOption(@, "target", <<"es2020">>)])
       ELSE IF arg = <<"--target">> /\ i + 1 <= Len(args)
       THEN parseFrom(args, i + 2,
              [acc EXCEPT !.options = SetOption(@, "target", args[i + 1])])
       ELSE IF arg = <<"--format=cjs">>
       THEN parseFrom(args, i + 1,
              [acc EXCEPT !.options = SetOption(@, "format", <<"cjs">>)])
       ELSE IF arg = <<"--format">> /\ i + 1 <= Len(args)
       THEN parseFrom(args, i + 2,
              [acc EXCEPT !.options = SetOption(@, "format", args[i + 1])])
       ELSE IF ~ startsWithDash(arg)
       THEN parseFrom(args, i + 1,
              [acc EXCEPT !.scriptPath = arg, !.foundScript = TRUE])
       ELSE parseFrom(args, i + 1, acc)

parseArgs(args) ==
  LET r == parseFrom(args, 1,
             [options |-> EmptyMap, scriptArgs |-> <<>>,
              scriptPath |-> NoTok, foundScript |-> FALSE])
  IN [scriptPath |-> r.scriptPath, scriptArgs |-> r.scriptArgs,
      options |-> r.options]

Has(options, k) == k \in DOMAIN options

\* CLIParser.validateArgs: TRUE when it returns an error message
validateArgs(parsed) ==
  IF Has(parsed.options, "help") \/ Has(parsed.options, "version")
  THEN FALSE
  ELSE \/ parsed.scriptPath = NoTok
       \/ /\ Has(parsed.options, "target")
          /\ parsed.options["target"] \notin
               {<<"es2015">>, <<"es2016">>, <<"es2017">>, <<"es2018">>,
                <<"es2019">>, <<"es2020">>, <<"es2021">>, <<"es2022">>,
                <<"esnext">>}
       \/ /\ Has(parsed.options, "format")
          /\ parsed.options["format"] \notin {<<"esm">>, <<"cjs">>, <<"iife">>}

\* the words of a list of tokens
RECURSIVE Words(_)
Words(q) == IF q = <<>> THEN <<>> ELSE Head(q) \o Words(Tail(q))

\* spawn(runner, [scriptPath, ...args], { shell: true }): the command and
\* the arguments are joined with spaces into one command line, which the
\* shell splits at white space; what the script finds after its own path
spawnedArgv(args) == Words(args)

CliTokens ==
  { <<"--verbose">>, <<"--force-builtin">>, <<"--target">>, <<"--format">>,
    <<"--format=cjs">>, <<"--port">>, <<"main.ts">>, <<"esm">>,
    <<"hello", "world">> }

CommandLines == UNION {[1..n -> CliTokens] : n \in 0..MaxArgs}

NoCli ==
  [args |-> <<>>, parsed |-> FALSE, result |-> parseArgs(<<>>),
   executed |-> FALSE, argv |-> <<>>, exited |-> FALSE, code |-> 0]

\* main: const parsed = CLIParser.parseArgs(args)
ParseArgs ==
  /\ ~ cli.parsed
  /\ \A r \in Runs : runnerOf[r] = 0
  /\ cli' = [cli EXCEPT !.parsed = TRUE, !.result = parseArgs(cli.args)]
  /\ UNCHANGED <<imports, files, dirs, mgr, run, runnerOf, nextId, proc,
                 tcRaw, tcName, tcOut, cfg, tm>>

\* main returns after help / version, or exits on a validation error
MainStops ==
  /\ cli.parsed /\ ~ cli.exited /\ ~ cli.executed
  /\ \/ Has(cli.result.options, "help")
     \/ Has(cli.result.options, "version")
     \/ validateArgs(cli.result)
  /\ cli' = [cli EXCEPT !.exited = TRUE,
                        !.code = IF validateArgs(cli.result) THEN 1 ELSE 0]
  /\ UNCHANGED <<imports, files, dirs, mgr, run, runnerOf, nextId, proc,
                 tcRaw, tcName, tcOut, cfg, tm>>

\* main: runner.run(parsed.scriptPath, parsed.scriptArgs, parsed.options)
\* gets to spawn the script
MainRuns ==
  /\ cli.parsed /\ ~ cli.exited /\ ~ cli.executed
  /\ ~ Has(cli.result.options, "help")
  /\ ~ Has(cli.result.options, "version")
  /\ ~ validateArgs(cli.result)
  /\ cli' = [cli EXCEPT !.executed = TRUE,
                        !.argv = spawnedArgv(cli.result.scriptArgs)]
  /\ UNCHANGED <<imports, files, dirs, mgr, run, runnerOf, nextId, proc,
                 tcRaw, tcName, tcOut, cfg, tm>>

(***************************************************************************)
(* Specifications.                                                         *)
(***************************************************************************)
NoImports == [f \in SrcFiles |-> <<>>]

InitCommon ==
  /\ files = [p \in {} |-> Source(NoFile)]
  /\ dirs = {TmpDir}
  /\ mgr = [n \in Runners |-> NewManager]
  /\ run = [r \in Runs |-> IdleRun]
  /\ nextId = 1
  /\ proc = "alive"
  /\ tcRaw = <<>>
  /\ tcOut = [ran |-> FALSE, list |-> <<>>]

\* one run() call on one runner
Init ==
  /\ InitCommon
  /\ cfg = NoConfig
  /\ cli = NoCli
  /\ tm = NoTm
  /\ imports = NoImports
  /\ runnerOf = [r \in Runs |-> IF r = 1 THEN 1 ELSE 0]
  /\ tcName = Main

Next ==
  \/ \E f \in SrcFiles : \E s \in MayImport(f) : AddImport(f, s)
  \/ \E r \in Runs : Start(r)
  \/ \E r \in Runs : Probe(r)
  \/ \E r \in Runs : ExternalExit(r)
  \/ \E r \in Runs : Transformed(r)
  \/ \E r \in Runs : DepStep(r)
  \/ \E r \in Runs : ScriptExit(r)
  \/ Signal

Spec == Init /\ [][Next]_vars

\* performTypeCheck applied to every short list of diagnostics
InitTC ==
  /\ InitCommon
  /\ cfg = NoConfig
  /\ cli = NoCli
  /\ tm = NoTm
  /\ imports = NoImports
  /\ runnerOf = [r \in Runs |-> 0]
  /\ tcName \in {Main, FileA}

NextTC ==
  \/ \E d \in AllDiags : TcReport(d)
  \/ TcCheck

SpecTC == InitTC /\ [][NextTC]_vars

\* two run() calls that may overlap, on one NTSRRunner or on two
InitConc ==
  /\ InitCommon
  /\ cfg = NoConfig
  /\ cli = NoCli
  /\ tm = NoTm
  /\ imports = [NoImports EXCEPT ![Main] = << Rel(0, <<>>, "a", "") >>]
  /\ runnerOf \in {[r \in Runs |-> 1], [r \in Runs |-> r]}
  /\ tcName = Main

NextConc ==
  \/ \E r \in Runs : Start(r)
  \/ \E r \in Runs : Probe(r)
  \/ \E r \in Runs : ExternalExit(r)
  \/ \E r \in Runs : Transformed(r)
  \/ \E r \in Runs : DepStep(r)
  \/ \E r \in Runs : ScriptExit(r)
  \/ Signal

SpecConc == InitConc /\ [][NextConc]_vars

\* TSConfigReader.findAndReadConfig, and the options performTypeCheck builds
\* from its result, on its own
ReadConfig ==
  /\ ~ cfg.ran
  /\ \A r \in Runs : runnerOf[r] = 0
  /\ LET tsConfig == findAndReadConfig(cfg.state, cfg.parsed)
     IN cfg' = [cfg EXCEPT !.ran = TRUE, !.result = tsConfig,
                           !.used = CheckerOptions(tsConfig)]
  /\ UNCHANGED <<imports, files, dirs, mgr, run, runnerOf, nextId, proc,
                 tcRaw, tcName, tcOut, cli, tm>>

InitCfg ==
  /\ InitCommon
  /\ imports = NoImports
  /\ runnerOf = [r \in Runs |-> 0]
  /\ tcName = Main
  /\ cfg \in {[NoConfig EXCEPT !.state = st, !.parsed = u] :
                st \in ConfigStates, u \in UserOptions}
  /\ cli = NoCli
  /\ tm = NoTm

NextCfg == ReadConfig

SpecCfg == InitCfg /\ [][NextCfg]_vars

\* the command line alone
InitArgs ==
  /\ InitCommon
  /\ imports = NoImports
  /\ runnerOf = [r \in Runs |-> 0]
  /\ tcName = Main
  /\ cfg = NoConfig
  /\ cli \in {[NoCli EXCEPT !.args = a] : a \in CommandLines}
  /\ tm = NoTm

NextArgs == ParseArgs \/ MainStops \/ MainRuns

SpecArgs == InitArgs /\ [][NextArgs]_vars

(***************************************************************************)
(* A TempManager driven on its own: sessions are created, files are        *)
(* written and tracked, a file may vanish, and run()'s finally block calls *)
(* cleanup().                                                              *)
(***************************************************************************)
TmCreateSession ==
  /\ tm.ops < MaxTmOps
  /\ nextId <= MaxSessions
  /\ mgr' = [mgr EXCEPT ![1] = createTempSession(@, nextId)]
  /\ dirs' = mkdirSync(dirs, SessionDir(nextId))
  /\ nextId' = nextId + 1
  /\ tm' = [tm EXCEPT !.ops = @ + 1, !.last = "create", !.lateAdds = 0]
  /\ UNCHANGED files
  /\ UNCHANGED <<imports, run, runnerOf, proc, tcRaw, tcName, tcOut, cfg, cli>>

\* mkdirSync, writeFileSync, addTempFile, addFileMapping, as
\* transpileFileWithDependencies does with the tempDir it was given
TmWrite(p) ==
  /\ tm.ops < MaxTmOps
  /\ \E id \in 1..(nextId - 1) : p \in TmPaths(SessionDir(id))
  /\ p \notin DOMAIN files
  /\ dirs' = mkdirSync(dirs, p.dir)
  /\ files' = writeFileSync(files, p, Source(Main))
  /\ mgr' = [mgr EXCEPT ![1] = addFileMapping(addTempFile(@, p), Main, p)]
  /\ tm' = [tm EXCEPT !.ops = @ + 1, !.last = "write",
                      !.lateAdds = IF mgr[1].currentTempDir = NoDir
                                   THEN @ + 1 ELSE @]
  /\ UNCHANGED nextId
  /\ UNCHANGED <<imports, run, runnerOf, proc, tcRaw, tcName, tcOut, cfg, cli>>

\* a file is removed by someone else
TmVanish(p) ==
  /\ tm.ops < MaxTmOps
  /\ p \in DOMAIN files
  /\ files' = [x \in DOMAIN files \ {p} |-> files[x]]
  /\ tm' = [tm EXCEPT !.ops = @ + 1, !.last = "vanish"]
  /\ UNCHANGED <<dirs, mgr, nextId>>
  /\ UNCHANGED <<imports, run, runnerOf, proc, tcRaw, tcName, tcOut, cfg, cli>>

\* NTSRRunner.run: try { ... } finally { this.cleanup() }
TmRunFinally(primary) ==
  /\ tm.ops < MaxTmOps
  /\ LET st == cleanupSteps(DOMAIN files, dirs, mgr[1], tm.locked)
     IN /\ files' = [x \in st.fs |-> files[x]]
        /\ dirs' = st.ds
        /\ mgr' = [mgr EXCEPT ![1] = NewManager]
        /\ tm' = [tm EXCEPT
                    !.ops = @ + 1, !.last = "cleanup", !.log = st.log,
                    !.threw = st.threw, !.warned = st.warned,
                    !.skipped = st.skipped,
                    !.primary = primary,
                    !.result = IF st.threw THEN "cleanup-error" ELSE primary,
                    !.again = tm.last = "cleanup",
                    !.changed = st.fs # DOMAIN files \/ st.ds # dirs,
                    !.lateAdds = 0]
  /\ UNCHANGED nextId
  /\ UNCHANGED <<imports, run, runnerOf, proc, tcRaw, tcName, tcOut, cfg, cli>>

InitTm ==
  /\ InitCommon
  /\ imports = NoImports
  /\ runnerOf = [r \in Runs |-> 0]
  /\ tcName = Main
  /\ cfg = NoConfig
  /\ cli = NoCli
  /\ tm \in {[NoTm EXCEPT !.locked = l] :    \* what unlinkSync will refuse
               l \in { {}, {File(SessionDir(1) \o <<"lib">>, "index", "mjs")},
                       {File(SessionDir(1), "main", "mjs")} }}

NextTm ==
  \/ TmCreateSession
  \/ \E id \in 1..MaxSessions : \E p \in TmPaths(SessionDir(id)) : TmWrite(p)
  \/ \E id \in 1..MaxSessions : \E p \in TmPaths(SessionDir(id)) : TmVanish(p)
  \/ \E primary \in {"returned", "rejected"} : TmRunFinally(primary)

SpecTm == InitTm /\ [][NextTm]_vars

(***************************************************************************)
(* The import graph the walk is supposed to cover.                         *)
(***************************************************************************)
\* the local files f imports
DepsOf(f) ==
  {extractDependenciesFromSourceFile(f)[i].resolvedPath :
     i \in 1..Len(extractDependenciesFromSourceFile(f))}

\* S and every local file reachable from it through imports
RECURSIVE Closure(_)
Closure(S) ==
  LET n == S \cup UNION {DepsOf(x) : x \in S}
  IN IF n = S THEN S ELSE Closure(n)

\* how often f was converted or copied in a walk
Count(q, f) == Cardinality({i \in 1..Len(q) : q[i] = f})

\* run r has settled
Done(r) == run[r].pc = "done"

\* transpileToTempFile of run r returned and no file failed on the way
WalkReturned(r) == run[r].tempJsPath # NoFile /\ run[r].failed = {}

(***************************************************************************)
(* Properties.                                                             *)
(***************************************************************************)

\* C1: once run() has settled, every file and every directory the run
\* created below the temporary directory is gone again, the directories
\* made for copied dependencies outside the entry directory included.
C1_EverythingCreatedIsRemoved ==
  \A r \in Runs :
    Done(r) =>
      /\ \A p \in run[r].made : p \notin DOMAIN files
      /\ \A d \in run[r].madeDirs : d \notin dirs

\* C2: no source file is converted or copied twice in one walk, and when
\* the walk has returned every local file reachable from the entry script
\* was converted or copied exactly once.
C2_EveryReachableFileExactlyOnce ==
  \A r \in Runs :
    /\ \A f \in SrcFiles : Count(run[r].written, f) <= 1
    /\ WalkReturned(r) =>
         \A f \in Closure({run[r].script}) : Count(run[r].written, f) = 1

\* C3: when the walk has returned, every reachable file that lies on an
\* import cycle was converted or copied exactly once.
C3_CycleMembersExactlyOnce ==
  \A r \in Runs :
    WalkReturned(r) =>
      \A f \in Closure({run[r].script}) :
        f \in Closure(DepsOf(f)) => Count(run[r].written, f) = 1

C5_RewrittenSpecifiersResolve ==
  \A r \in Runs :
    run[r].pc = "exec" /\ WalkReturned(r) =>
      \A p \in run[r].made \cap DOMAIN files :
        files[p].session # NoDir =>
          \A i \in 1..Len(files[p].imports) :
            files[p].imports[i] # ImportsOf(files[p].from)[i] =>
              LET t == resolve(p.dir, files[p].imports[i])
              IN t \in DOMAIN files /\ IsPrefix(run[r].session, t.dir)

C7_OverlappingRunsIsolated ==
  /\ [](\A r1, r2 \in Runs :
          r1 # r2 /\ InFlight(r1) /\ InFlight(r2)
            /\ run[r1].session # NoDir
          => run[r1].session # run[r2].session)
  /\ [][\A r \in Runs :
          InFlight(r) /\ InFlight(r)' =>
            /\ \A p \in run[r].made \cap DOMAIN files : p \in DOMAIN files'
            /\ \A d \in run[r].madeDirs \cap dirs : d \in dirs']_vars

\* C8: once the process has exited on SIGINT / SIGTERM, no file and no
\* directory tracked by a TempManager is left on disk.
C8_SignalRemovesTrackedArtifacts ==
  proc = "exited" =>
    \A n \in Runners :
      /\ \A p \in Range(mgr[n].tempFiles) : p \notin DOMAIN files
      /\ \A d \in Range(mgr[n].tempDirs) : d \notin dirs

\* C9: a run whose filtered diagnostics of the entry script hold no error
\* (warnings only, or nothing) never rejects for type or compilation errors.
C9_WarningsNeverReject ==
  \A r \in Runs :
    Done(r) /\ ~ hasErrors(run[r].entryDiags) =>
      run[r].outcome \notin {"type-errors", "compilation-failed"}

\* C10: what performTypeCheck returns holds no diagnostic attached to a file
\* other than the file checked and none whose code is in the ignore-list.
C10_OnlyEntryDiagnostics ==
  tcOut.ran =>
    \A i \in 1..Len(tcOut.list) :
      /\ tcOut.list[i].file \in {NoFile, tcName}
      /\ tcOut.list[i].code \notin ignoredCodes

C10_FilteredSome ==
  /\ tcOut.ran
  /\ tcOut.list # <<>>
  /\ \E i \in 1..Len(tcRaw) :
       /\ tcRaw[i].file \notin {NoFile, tcName}
       /\ ~ isLibraryFile(tcRaw[i].file)
       /\ tcRaw[i].code \notin ignoredCodes
       /\ tcRaw[i].category = "Error" /\ tcRaw[i].code \in criticalErrorCodes

\* C11: when the compiler threw inside performTypeCheck, the list returned
\* is empty, the run is not rejected for type or compilation errors, and a
\* run in which nothing else failed has started a runner or the script.
C11_CheckerFailureIsFailOpen ==
  \A r \in Runs :
    run[r].tcThrew /\ existsSrc(run[r].script) =>
      /\ run[r].gate = <<>> /\ run[r].entryDiags = <<>>
      /\ run[r].outcome \notin {"type-errors", "compilation-failed"}
      /\ Done(r) /\ run[r].failed = {} => run[r].started # <<>>

C11_RanAfterCheckerFailure ==
  \E r \in Runs :
    /\ run[r].tcThrew /\ run[r].checked /\ isTypeScriptFile(run[r].script)
    /\ Done(r) /\ run[r].outcome = "ok" /\ run[r].tempJsPath # NoFile

C13_BrokenConfigGivesDefaults ==
  cfg.ran /\ cfg.state \in {"unreadable", "throws", "errors"} =>
    /\ cfg.result.compilerOptions = getDefaultCompilerOptions
    /\ cfg.result.warned

\* C14: when the walk has returned, every import through an alias prefix that
\* resolves to a .ts/.tsx file stands in the written file as a relative
\* specifier with the extension of the output format, and resolves, from the
\* directory of the written file, to a file that exists in the session tree.
C14_AliasImportsResolveInSession ==
  \A r \in Runs :
    run[r].pc = "exec" /\ WalkReturned(r) =>
      \A p \in run[r].made \cap DOMAIN files :
        files[p].session # NoDir =>
          \A i \in 1..Len(files[p].imports) :
            LET s == ImportsOf(files[p].from)[i]
                target == resolveModuleName(s, files[p].from)
                w == files[p].imports[i]
                t == resolve(p.dir, w)
            IN s.kind = "alias" /\ target # NoFile /\ isTypeScriptFile(target)
               => /\ w.kind = "rel"
                  /\ w.ext = targetExt(run[r].format)
                  /\ t \in DOMAIN files
                  /\ IsPrefix(run[r].session, t.dir)

\* C15: two runs of the built-in pipeline on the same entry script, with the
\* same import graph and the same format, write the same content for each
\* converted file.
C15_SameInputSameBytes ==
  \A r1 \in Runs, r2 \in Runs :
    /\ r1 # r2
    /\ run[r1].script = run[r2].script
    /\ run[r1].format = run[r2].format
    => \A a \in run[r1].placed, b \in run[r2].placed :
         a.src = b.src /\ isTypeScriptFile(a.src) => a.content = b.content

\* C16: a dependency whose source file lies outside the directory subtree of
\* the entry script, converted or copied, is written inside the session root.
C16_OutsideDependenciesLandInSession ==
  \A r \in Runs :
    \A pl \in run[r].placed :
      pl.src # run[r].script /\ ~ IsPrefix(run[r].script.dir, pl.src.dir) =>
        IsPrefix(run[r].session, pl.to.dir)

\* C17: a dependency that is not converted and lies at entryDir/p is copied
\* to sessionRoot/p, whichever file of the graph imports it.
C17_CopiesMirrorEntryDirectory ==
  \A r \in Runs :
    \A pl \in run[r].placed :
      /\ pl.src # run[r].script
      /\ ~ isTypeScriptFile(pl.src)
      /\ IsPrefix(run[r].script.dir, pl.src.dir)
      /\ IsPrefix(run[r].script.dir, pl.by.dir)
      => LET p == SubSeq(pl.src.dir, Len(run[r].script.dir) + 1,
                         Len(pl.src.dir))
         IN pl.to = File(run[r].session \o p, pl.src.name, pl.src.ext)

\* C18: when the conversion of a file of the graph has failed, the entry
\* script or a dependency, transpileToTempFile returns no path, the converted
\* entry is never executed and the run ends as a failed transpilation.
C18_ConvertFailureAbortsRun ==
  \A r \in Runs :
    (\E x \in run[r].failed : x.kind = "convert") =>
      /\ run[r].tempJsPath = NoFile
      /\ "node" \notin Range(run[r].started)
      /\ Done(r) => run[r].outcome = "transpile-failed"

\* S and every local file reachable from it through the imports of
\* TypeScript files, without going through the file d
RECURSIVE ClosureAvoiding(_, _)
ClosureAvoiding(S, d) ==
  LET n == S \cup UNION {DepsOf(x) : x \in {y \in S \ {d} :
                                               isTypeScriptFile(y)}}
  IN IF n = S THEN S ELSE ClosureAvoiding(n, d)

\* C19: when reading a dependency D is the one failure of a run, the run
\* does not end as a failed transpilation, and once transpileToTempFile has
\* returned every other file reachable without going through D was written.
C19_ReadFailureSkipsOnlyItsSubtree ==
  \A r \in Runs :
    \A x \in run[r].failed :
      x.kind = "read" /\ x.file # run[r].script /\ run[r].failed = {x} =>
        /\ run[r].outcome # "transpile-failed"
        /\ run[r].tempJsPath # NoFile =>
             \A f \in ClosureAvoiding({run[r].script}, x.file) \ {x.file} :
               f \in Range(run[r].written)

\* C20: a bare package specifier, "pkg" or "pkg/sub", stands unchanged in
\* the converted code, and the file it resolves to in node_modules is never
\* in a dependency list nor written by the walk.
C20_BareSpecifiersUntouched ==
  \A r \in Runs :
    /\ \A pl \in run[r].placed :
         /\ pl.src \notin Installed
         /\ pl.content.session # NoDir =>
              \A i \in 1..Len(pl.content.imports) :
                ImportsOf(pl.src)[i].kind = "bare" =>
                  pl.content.imports[i] = ImportsOf(pl.src)[i]
    /\ \A k \in 1..Len(run[r].stack) :
         \A j \in 1..Len(run[r].stack[k].deps) :
           run[r].stack[k].deps[j].resolvedPath \notin Installed

Pos(q, x) == CHOOSE i \in 1..Len(q) : q[i] = x

RECURSIVE Consumed(_, _)
Consumed(args, i) ==
  /\ i > 1
  /\ args[i - 1] \in {<<"--target">>, <<"--format">>}
  /\ ~ Consumed(args, i - 1)

\* index of the first token that is neither an option nor an option's
\* value, 0 when there is none
FirstScript(args) ==
  LET S == {i \in 1..Len(args) :
              /\ ~ startsWithDash(args[i])
              /\ ~ Consumed(args, i)
              /\ \A j \in 1..(i - 1) :
                    startsWithDash(args[j]) \/ Consumed(args, j)}
  IN IF S = {} THEN 0 ELSE CHOOSE i \in S : TRUE

\* C22: the first token that does not start with "-" and is not the value
\* of --target or --format is the script path, the tokens after it are the
\* script arguments in order, none of them sets an option, and the executed
\* script receives exactly those tokens.
C22_ScriptArgsPassThrough ==
  cli.parsed =>
    LET k == FirstScript(cli.args)
        n == Len(cli.args)
    IN /\ k = 0 => cli.result.scriptPath = NoTok /\ cli.result.scriptArgs = <<>>
       /\ k > 0 =>
            /\ cli.result.scriptPath = cli.args[k]
            /\ cli.result.scriptArgs = SubSeq(cli.args, k + 1, n)
            /\ cli.result.options = parseArgs(SubSeq(cli.args, 1, k)).options
       /\ cli.executed =>
            /\ Len(cli.argv) = Len(cli.result.scriptArgs)
            /\ \A i \in 1..Len(cli.argv) :
                 <<cli.argv[i]>> = cli.result.scriptArgs[i]

\* C23: a run on a script path that does not exist rejects at once with
\* "Script file not found": no type check was run, no runner was started, no
\* session was created, and main exits with a non-zero code.
C23_MissingScriptRejected ==
  \A r \in Runs :
    run[r].pc # "idle" /\ run[r].script \notin SrcFiles \cup Installed =>
      /\ Done(r)
      /\ run[r].outcome = "not-found"
      /\ ~ run[r].checked /\ run[r].gate = <<>>
      /\ run[r].started = <<>>
      /\ run[r].session = NoDir
      /\ run[r].made = {} /\ run[r].madeDirs = {}
      /\ run[r].exitCode # 0

C23_MissingScriptRun ==
  \E r \in Runs :
    Done(r) /\ run[r].script = Missing /\ ~ run[r].skipTypeCheck
      /\ ~ run[r].forceBuiltin

\* C24: in one run() call at most one child process is started on the
\* script, whatever the code it exits with.
C24_ScriptStartedAtMostOnce ==
  \A r \in Runs : Len(run[r].started) <= 1

\* the local files f imports, in source order
DepSeq(f) ==
  [i \in 1..Len(extractDependenciesFromSourceFile(f)) |->
     extractDependenciesFromSourceFile(f)[i].resolvedPath]

\* depth-first pre-order: acc followed by the files reached from the files
\* of q, in order, that are not yet in the list
RECURSIVE VisitAll(_, _)
VisitAll(q, acc) ==
  IF q = <<>> THEN acc
  ELSE IF Head(q) \in Range(acc) THEN VisitAll(Tail(q), acc)
  ELSE VisitAll(Tail(q), VisitAll(DepSeq(Head(q)), Append(acc, Head(q))))

Preorder(f) == VisitAll(<<f>>, <<>>)

\* C25: when the walk has returned, the files were written in the
\* depth-first pre-order of the import graph of the entry script, and every
\* file had its mapping recorded when the walk went on to its dependencies.
C25_WrittenInDepthFirstPreorder ==
  \A r \in Runs :
    /\ run[r].pc = "exec" /\ WalkReturned(r) =>
         run[r].written = Preorder(run[r].script)
    /\ \A k \in 1..Len(run[r].stack) :
         getMappedPath(mgr[runnerOf[r]], run[r].stack[k].file) # NoFile

C27_CleanupInnermostFirstIdempotent ==
  /\ \A i \in 1..Len(tm.log), j \in 1..Len(tm.log) :
       i < j /\ tm.log[i].isDir => ~ IsPrefix(tm.log[i].dir, tm.log[j].dir)
  /\ \A i \in 1..Len(tm.log) :
       tm.last = "cleanup" /\ tm.log[i].isDir =>
         /\ \A p \in DOMAIN files : p.dir # tm.log[i].dir
         /\ tm.log[i].dir \notin dirs
  /\ tm.skipped => ~ tm.threw
  /\ tm.again => ~ tm.changed /\ ~ tm.threw /\ tm.log = <<>>

C27_NestedCleanupWithMissingPath ==
  /\ tm.last = "cleanup" /\ tm.skipped
  /\ \E i \in 1..Len(tm.log), j \in 1..Len(tm.log) :
       /\ i < j
       /\ ~ tm.log[i].isDir /\ tm.log[j].isDir
       /\ tm.log[i].dir = tm.log[j].dir
       /\ Len(tm.log[j].dir) > Len(SessionDir(1))

\* C28: while no session is open (cleanup() has returned and
\* createTempSession has not been called since), the tracked files, the
\* tracked directories and the path map are empty: cleanup empties them and
\* addTempFile / addFileMapping calls made in between are not accepted.
C28_NothingTrackedWithoutSession ==
  \A i \in DOMAIN mgr :
    mgr[i].currentTempDir = NoDir => mgr[i] = NewManager

\* C29: a deletion that fails during cleanup() is only logged: cleanup()
\* does not throw, so what run() returns or rejects with after its finally
\* block is the result it had before the block.
C29_CleanupNeverMasksResult ==
  tm.primary # "none" => ~ tm.threw /\ tm.result = tm.primary

C29_DeletionFailedDuringCleanup ==
  /\ tm.last = "cleanup" /\ tm.warned
  /\ tm.primary = "rejected"
  /\ \E p \in tm.locked : p \in DOMAIN files /\ p.dir \in dirs

\* C30: a run started with skipTypeCheck set never ends rejecting with a
\* TypeScript compilation error, neither at the gate before the external
\* runners nor while the built-in transpiler converts the script.
C30_SkipTypeCheckNeverRejectsOnTypes ==
  \A r \in Runs :
    run[r].skipTypeCheck =>
      run[r].outcome \notin {"type-errors", "compilation-failed"}

====
